---- MODULE Spec2Model ----
(***************************************************************************)
(* Model of src/search_tree.cpp: TSearchTree<T, IsMultiSet> and its        *)
(* subclasses TAvlTree and TAvlTreeWithSize.  The node graph is a heap of  *)
(* records addressed by node identifiers; shared_ptr ownership is modelled *)
(* by reachability from root_, weak_ptr parent links by identifiers that   *)
(* expire (become NULL) when their target is released.                     *)
(***************************************************************************)
EXTENDS Integers, FiniteSets, Sequences, TLC

\* ---- bounds of the model ------------------------------------------------
MaxVal == 4        \* a set holds values 1..MaxVal
MaxMultiVal == 3   \* a multiset holds values 1..MaxMultiVal
MaxCnt == 2        \* a multiset is given at most MaxCnt occurrences of a value
MaxSize == 5       \* Insert is not called on a set once size_ has reached MaxSize
MaxMultiSize == 4  \* nor on a multiset once size_ has reached MaxMultiSize

AllValues == 1 .. (IF MaxVal >= MaxMultiVal THEN MaxVal ELSE MaxMultiVal)
Queries == 0 .. (MaxVal + 1)
NodeIds == AllValues
NULL == 0

VARIABLES
    root_,       \* TSearchTree::root_ (a node identifier or NULL)
    heap,        \* the live nodes: node identifier -> Node record
    size_,       \* TSearchTree::size_
    IsMultiSet,  \* the template parameter IsMultiSet
    WithSize,    \* TRUE for TAvlTreeWithSize, FALSE for TAvlTree
    status,      \* "ok" while the program runs, "crashed" after a fault
    occ,         \* history: occurrences each value should have by the calls made
    phase,       \* history: shape of the call sequence so far
    inserted     \* history: Insert calls of each value since it was last absent
                 \* from the tree (kept for a multiset only)

vars == <<root_, heap, size_, IsMultiSet, WithSize, status, occ, phase, inserted>>

\* the values of T the calls are made with
Values == 1 .. (IF IsMultiSet THEN MaxMultiVal ELSE MaxVal)

Max(a, b) == IF a >= b THEN a ELSE b
Min(S) == CHOOSE x \in S : \A y \in S : x <= y

\* ---- nodes ----------------------------------------------------------------
\* Node / AvlNode / AvlNodeWithSize with their member initialisers.  size_ is
\* a member of AvlNodeWithSize only; it is kept at 0 for a plain AvlNode.
NewNode(value) ==
    [value_ |-> value, left_ |-> NULL, right_ |-> NULL, parent_ |-> NULL,
     cnt_ |-> 1, height_ |-> 1, size_ |-> IF WithSize THEN 1 ELSE 0]

\* CreateNode: make_shared of a fresh node; the smallest unused identifier.
CreateNode(h, value) ==
    LET id == Min(NodeIds \ DOMAIN h)
    IN  [h |-> (id :> NewNode(value)) @@ h, ret |-> id]

\* SwapNodesValue leaving the counts where they were
SwapNodesValueOnly(h, n1, n2) ==
    [h EXCEPT ![n1].value_ = h[n2].value_, ![n2].value_ = h[n1].value_]

SwapNodesValue(h, n1, n2) ==
    [h EXCEPT ![n1].value_ = h[n2].value_, ![n2].value_ = h[n1].value_,
              ![n1].cnt_ = h[n2].cnt_, ![n2].cnt_ = h[n1].cnt_]

\* IsLeftSon looking at the parent's right_
IsLeftSonLooksRight(h, cur_node) ==
    LET parent == h[cur_node].parent_
    IN  parent # NULL /\ h[parent].right_ = cur_node

IsLeftSon(h, cur_node) ==
    LET parent == h[cur_node].parent_
    IN  parent # NULL /\ h[parent].left_ = cur_node

\* IsRightSon looking at the parent's left_
IsRightSonLooksLeft(h, cur_node) ==
    LET parent == h[cur_node].parent_
    IN  parent # NULL /\ h[parent].left_ = cur_node

IsRightSon(h, cur_node) ==
    LET parent == h[cur_node].parent_
    IN  parent # NULL /\ h[parent].right_ = cur_node

RECURSIVE FindMax(_, _)
FindMax(h, node) ==
    IF node # NULL /\ h[node].right_ # NULL THEN FindMax(h, h[node].right_) ELSE node

\* FindMin walking right_ instead of left_
FindMinWrongSide(h, node) == FindMax(h, node)

RECURSIVE FindMin(_, _)
FindMin(h, node) ==
    IF node # NULL /\ h[node].left_ # NULL THEN FindMin(h, h[node].left_) ELSE node

\* ---- AVL layer ------------------------------------------------------------
\* NodeHeight returns size_t and HeightDiff converts the size_t difference to
\* int; for heights below 2^31 that conversion yields the signed difference.
NodeHeight(h, node) == IF node # NULL THEN h[node].height_ ELSE 0

HeightDiff(h, node) ==
    IF node # NULL
    THEN NodeHeight(h, h[node].left_) - NodeHeight(h, h[node].right_)
    ELSE 0

NodeSize(h, node) == IF node # NULL THEN h[node].size_ ELSE 0

\* TAvlTree::RenewNodesHeight and its override in TAvlTreeWithSize.
RenewNodesHeight(h, node) ==
    IF node = NULL THEN h
    ELSE LET hh == Max(NodeHeight(h, h[node].right_), NodeHeight(h, h[node].left_)) + 1
         IN  IF WithSize
             THEN [h EXCEPT ![node].height_ = hh,
                            ![node].size_ = (NodeSize(h, h[node].right_)
                                             + NodeSize(h, h[node].left_)) + 1]
             ELSE [h EXCEPT ![node].height_ = hh]

\* the re-threading of the parent link left out
SetParentForgotten(h, child, parent) == h

SetParent(h, child, parent) ==
    IF child # NULL THEN [h EXCEPT ![child].parent_ = parent] ELSE h

\* RotateRight returning the old subtree root instead of son
RotateRightReturnsNode(h, node) ==
    LET son == h[node].left_
        T2 == h[son].right_
        h1 == [h EXCEPT ![son].right_ = node, ![node].left_ = T2,
                        ![node].parent_ = son]
        h2 == SetParent(h1, T2, node)
        h3 == RenewNodesHeight(h2, node)
        h4 == RenewNodesHeight(h3, son)
    IN  [h |-> h4, ret |-> node]

RotateRight(h, node) ==
    LET son == h[node].left_
        T2 == h[son].right_
        h1 == [h EXCEPT ![son].right_ = node, ![node].left_ = T2,
                        ![node].parent_ = son]
        h2 == SetParent(h1, T2, node)
        h3 == RenewNodesHeight(h2, node)
        h4 == RenewNodesHeight(h3, son)
    IN  [h |-> h4, ret |-> son]

RotateLeft(h, node) ==
    LET son == h[node].right_
        T2 == h[son].left_
        h1 == [h EXCEPT ![son].left_ = node, ![node].right_ = T2,
                        ![node].parent_ = son]
        h2 == SetParent(h1, T2, node)
        h3 == RenewNodesHeight(h2, node)
        h4 == RenewNodesHeight(h3, son)
    IN  [h |-> h4, ret |-> son]

RightRotation(h, node) ==
    IF HeightDiff(h, h[node].left_) >= 0
    THEN RotateRight(h, node)
    ELSE LET r == RotateLeft(h, h[node].left_)
             h1 == [r.h EXCEPT ![node].left_ = r.ret]
             h2 == SetParent(h1, r.ret, node)
         IN  RotateRight(h2, node)

\* LeftRotation without the double-rotation case
LeftRotationAlwaysSingle(h, node) == RotateLeft(h, node)

LeftRotation(h, node) ==
    IF HeightDiff(h, h[node].right_) <= 0
    THEN RotateLeft(h, node)
    ELSE LET r == RotateRight(h, h[node].right_)
             h1 == [r.h EXCEPT ![node].right_ = r.ret]
             h2 == SetParent(h1, r.ret, node)
         IN  RotateLeft(h2, node)

\* BalanceNode that renews the height and never rotates
BalanceNodeNeverRotates(h, node) ==
    IF node = NULL THEN [h |-> h, ret |-> NULL]
    ELSE [h |-> RenewNodesHeight(h, node), ret |-> node]

BalanceNode(h, node) ==
    IF node = NULL THEN [h |-> h, ret |-> NULL]
    ELSE LET h1 == RenewNodesHeight(h, node)
             node_height == HeightDiff(h1, node)
         IN  IF node_height < -1 THEN LeftRotation(h1, node)
             ELSE IF node_height > 1 THEN RightRotation(h1, node)
             ELSE [h |-> h1, ret |-> node]

\* TAvlTree::Balance, the override of the rebalancing hook.
Balance(h, node) == BalanceNode(h, node)

\* ---- base engine ----------------------------------------------------------
\* InsertIfFound counting the duplicate in a set too
InsertIfFoundAlwaysCounts(h, cur_node) == [h EXCEPT ![cur_node].cnt_ = @ + 1]

InsertIfFound(h, cur_node) ==
    IF IsMultiSet THEN [h EXCEPT ![cur_node].cnt_ = @ + 1] ELSE h

RECURSIVE InsertRecursive(_, _, _, _)
InsertRecursive(h, sz, value, node) ==
    IF node = NULL
    THEN LET c == CreateNode(h, value)
         IN  [h |-> c.h, sz |-> sz + 1, ret |-> c.ret]
    ELSE IF h[node].value_ = value
    THEN LET b == Balance(InsertIfFound(h, node), node)
         IN  [h |-> b.h, sz |-> sz, ret |-> b.ret]
    ELSE IF h[node].value_ > value
    THEN LET r == InsertRecursive(h, sz, value, h[node].left_)
             h1 == [r.h EXCEPT ![node].left_ = r.ret]
             b == Balance(SetParent(h1, r.ret, node), node)
         IN  [h |-> b.h, sz |-> r.sz, ret |-> b.ret]
    ELSE LET r == InsertRecursive(h, sz, value, h[node].right_)
             h1 == [r.h EXCEPT ![node].right_ = r.ret]
             b == Balance(SetParent(h1, r.ret, node), node)
         IN  [h |-> b.h, sz |-> r.sz, ret |-> b.ret]

RECURSIVE EraseRecursive(_, _, _)
RECURSIVE EraseIfFound(_, _)
EraseIfFound(h, node) ==
    IF h[node].left_ = NULL \/ h[node].right_ = NULL
    THEN [h |-> h,
          ret |-> IF h[node].left_ # NULL THEN h[node].left_ ELSE h[node].right_]
    ELSE LET change_node == FindMin(h, h[node].right_)
             h1 == SwapNodesValue(h, node, change_node)
             r == EraseRecursive(h1, h1[change_node].value_, h1[node].right_)
             h2 == [r.h EXCEPT ![node].right_ = r.ret]
         IN  [h |-> SetParent(h2, r.ret, node), ret |-> node]

EraseRecursive(h, value, node) ==
    IF node = NULL THEN [h |-> h, ret |-> NULL]
    ELSE IF h[node].value_ = value THEN EraseIfFound(h, node)
    ELSE IF h[node].value_ > value
    THEN LET r == EraseRecursive(h, value, h[node].left_)
             h1 == [r.h EXCEPT ![node].left_ = r.ret]
         IN  [h |-> SetParent(h1, r.ret, node), ret |-> node]
    ELSE LET r == EraseRecursive(h, value, h[node].right_)
             h1 == [r.h EXCEPT ![node].right_ = r.ret]
         IN  [h |-> SetParent(h1, r.ret, node), ret |-> node]

\* FindRecursive descending to the wrong side
RECURSIVE FindRecursiveWrongSide(_, _, _)
FindRecursiveWrongSide(h, value, node) ==
    IF node = NULL THEN NULL
    ELSE IF h[node].value_ = value THEN node
    ELSE IF h[node].value_ > value THEN FindRecursiveWrongSide(h, value, h[node].right_)
    ELSE FindRecursiveWrongSide(h, value, h[node].left_)

RECURSIVE FindRecursive(_, _, _)
FindRecursive(h, value, node) ==
    IF node = NULL THEN NULL
    ELSE IF h[node].value_ = value THEN node
    ELSE IF h[node].value_ > value THEN FindRecursive(h, value, h[node].left_)
    ELSE FindRecursive(h, value, h[node].right_)

\* ---- the calls Insert makes on its way back up -------------------------------
\* The (heap, node) pairs InsertRecursive hands to Balance while inserting
\* value below node, innermost first in time; each heap is the one at the call.
RECURSIVE BalanceCalls(_, _, _)
BalanceCalls(h, value, node) ==
    IF node = NULL THEN {}
    ELSE IF h[node].value_ = value
    THEN {[h |-> InsertIfFound(h, node), node |-> node]}
    ELSE IF h[node].value_ > value
    THEN LET r == InsertRecursive(h, 0, value, h[node].left_)
             h1 == [r.h EXCEPT ![node].left_ = r.ret]
         IN  BalanceCalls(h, value, h[node].left_)
             \cup {[h |-> SetParent(h1, r.ret, node), node |-> node]}
    ELSE LET r == InsertRecursive(h, 0, value, h[node].right_)
             h1 == [r.h EXCEPT ![node].right_ = r.ret]
         IN  BalanceCalls(h, value, h[node].right_)
             \cup {[h |-> SetParent(h1, r.ret, node), node |-> node]}

\* The rotation calls BalanceNode(h, node) makes: which function, on which
\* heap and node.
RotationsApplied(h, node) ==
    IF node = NULL THEN {}
    ELSE LET h1 == RenewNodesHeight(h, node)
             node_height == HeightDiff(h1, node)
         IN  IF node_height < -1
             THEN {[f |-> "LeftRotation", h |-> h1, node |-> node]} \cup
                  (IF HeightDiff(h1, h1[node].right_) <= 0
                   THEN {[f |-> "RotateLeft", h |-> h1, node |-> node]}
                   ELSE LET r == RotateRight(h1, h1[node].right_)
                            h2 == [r.h EXCEPT ![node].right_ = r.ret]
                        IN  {[f |-> "RotateRight", h |-> h1, node |-> h1[node].right_],
                             [f |-> "RotateLeft", h |-> SetParent(h2, r.ret, node),
                              node |-> node]})
             ELSE IF node_height > 1
             THEN {[f |-> "RightRotation", h |-> h1, node |-> node]} \cup
                  (IF HeightDiff(h1, h1[node].left_) >= 0
                   THEN {[f |-> "RotateRight", h |-> h1, node |-> node]}
                   ELSE LET r == RotateLeft(h1, h1[node].left_)
                            h2 == [r.h EXCEPT ![node].left_ = r.ret]
                        IN  {[f |-> "RotateLeft", h |-> h1, node |-> h1[node].left_],
                             [f |-> "RotateRight", h |-> SetParent(h2, r.ret, node),
                              node |-> node]})
             ELSE {}

\* the call a RotationsApplied entry stands for
ApplyRotation(c) ==
    IF c.f = "RotateRight" THEN RotateRight(c.h, c.node)
    ELSE IF c.f = "RotateLeft" THEN RotateLeft(c.h, c.node)
    ELSE IF c.f = "RightRotation" THEN RightRotation(c.h, c.node)
    ELSE LeftRotation(c.h, c.node)

\* ---- shared_ptr / weak_ptr bookkeeping --------------------------------------
RECURSIVE Owned(_, _)
Owned(h, node) ==
    IF node = NULL THEN {}
    ELSE {node} \cup Owned(h, h[node].left_) \cup Owned(h, h[node].right_)

\* Nodes no shared_ptr chain from root reaches are destroyed; a weak_ptr to a
\* destroyed node locks to nullptr from then on.
Release(h, root) ==
    LET live == Owned(h, root)
    IN  [n \in live |-> IF h[n].parent_ \in live \cup {NULL} THEN h[n]
                        ELSE [h[n] EXCEPT !.parent_ = NULL]]

\* ---- queries -----------------------------------------------------------------
Exsist(value) == FindRecursive(heap, value, root_) # NULL
Find(value) == FindRecursive(heap, value, root_)
Size == size_
Empty == size_ = 0

\* Next comparing with >= : a stored query value is its own successor
RECURSIVE NextLoopNotStrict(_, _, _, _)
NextLoopNotStrict(h, value, cur_node, next) ==
    IF cur_node = NULL THEN next
    ELSE IF h[cur_node].value_ >= value
    THEN NextLoopNotStrict(h, value, h[cur_node].left_,
                  IF next = NULL \/ h[cur_node].value_ < h[next].value_
                  THEN cur_node ELSE next)
    ELSE NextLoopNotStrict(h, value, h[cur_node].right_, next)

RECURSIVE NextLoop(_, _, _, _)
NextLoop(h, value, cur_node, next) ==
    IF cur_node = NULL THEN next
    ELSE IF h[cur_node].value_ > value
    THEN NextLoop(h, value, h[cur_node].left_,
                  IF next = NULL \/ h[cur_node].value_ < h[next].value_
                  THEN cur_node ELSE next)
    ELSE NextLoop(h, value, h[cur_node].right_, next)

TreeNext(value) == NextLoop(heap, value, root_, NULL)

\* Prev that keeps the first candidate it meets instead of the closest
RECURSIVE PrevLoopFirstCandidate(_, _, _, _)
PrevLoopFirstCandidate(h, value, cur_node, prev) ==
    IF cur_node = NULL THEN prev
    ELSE IF h[cur_node].value_ < value
    THEN PrevLoopFirstCandidate(h, value, h[cur_node].right_,
                  IF prev = NULL THEN cur_node ELSE prev)
    ELSE PrevLoopFirstCandidate(h, value, h[cur_node].left_, prev)

RECURSIVE PrevLoop(_, _, _, _)
PrevLoop(h, value, cur_node, prev) ==
    IF cur_node = NULL THEN prev
    ELSE IF h[cur_node].value_ < value
    THEN PrevLoop(h, value, h[cur_node].right_,
                  IF prev = NULL \/ h[cur_node].value_ > h[prev].value_
                  THEN cur_node ELSE prev)
    ELSE PrevLoop(h, value, h[cur_node].left_, prev)

TreePrev(value) == PrevLoop(heap, value, root_, NULL)

\* ---- iterators -----------------------------------------------------------------
\* An iterator is its node_ptr: a node identifier, or NULL for End().
Begin == FindMin(heap, root_)
End == NULL

\* the while loops of operator++ and operator--
RECURSIVE ClimbWhileRightSon(_, _)
ClimbWhileRightSon(h, node_ptr) ==
    IF IsRightSon(h, node_ptr) THEN ClimbWhileRightSon(h, h[node_ptr].parent_)
    ELSE node_ptr

RECURSIVE ClimbWhileLeftSon(_, _)
ClimbWhileLeftSon(h, node_ptr) ==
    IF IsLeftSon(h, node_ptr) THEN ClimbWhileLeftSon(h, h[node_ptr].parent_)
    ELSE node_ptr

\* BaseIterator::operator++ (prefix)
OperatorIncrement(h, node_ptr) ==
    IF h[node_ptr].right_ # NULL
    THEN FindMin(h, h[node_ptr].right_)
    ELSE h[ClimbWhileRightSon(h, node_ptr)].parent_

\* BaseIterator::operator-- (prefix)
OperatorDecrement(h, node_ptr) ==
    IF h[node_ptr].left_ # NULL
    THEN FindMax(h, h[node_ptr].left_)
    ELSE h[ClimbWhileLeftSon(h, node_ptr)].parent_

\* for (it = Begin(); it != End(); ++it) visit(*it), cut off after fuel steps
RECURSIVE ForwardLoop(_, _, _)
ForwardLoop(h, it, fuel) ==
    IF it = End \/ fuel = 0 THEN << >>
    ELSE <<h[it].value_>> \o ForwardLoop(h, OperatorIncrement(h, it), fuel - 1)

\* CreateFakeNodeWithLeftSon: make_shared<Node>(root_->value_) with left_ set,
\* at an address no live node has.  Called with root_ # NULL.
FakeId(h) == Min((1 .. (Cardinality(DOMAIN h) + 1)) \ DOMAIN h)

CreateFakeNodeWithLeftSon(h, root, node) ==
    LET new_node == FakeId(h)
    IN  [h |-> (new_node :> [value_ |-> h[root].value_, left_ |-> node,
                             right_ |-> NULL, parent_ |-> NULL, cnt_ |-> 1,
                             height_ |-> 0, size_ |-> 0]) @@ h,
         ret |-> new_node]

\* for (rit = RBegin(); rit != REnd(); ++rit) visit(*rit) with
\* std::reverse_iterator: *rit is the value before current, ++rit moves
\* current back, REnd() holds Begin().  Cut off after fuel steps.
RECURSIVE ReverseLoop(_, _, _)
ReverseLoop(h, current, fuel) ==
    IF current = FindMin(h, root_) \/ fuel = 0 THEN << >>
    ELSE LET before == OperatorDecrement(h, current)
         IN  <<h[before].value_>> \o ReverseLoop(h, before, fuel - 1)

\* The outcomes of a whole reverse iteration.  On the empty tree RBegin()
\* reads root_->value_ through a null pointer: the program faults, or the
\* read yields some value, and then the fake node has no predecessor, *rit
\* reads through a null pointer once more (fault, or some value is visited)
\* and ++rit reaches REnd().
ReverseIteration ==
    IF root_ = NULL
    THEN {[fault |-> TRUE, visited |-> << >>]}
         \cup {[fault |-> FALSE, visited |-> <<w>>] : w \in AllValues}
    ELSE LET f == CreateFakeNodeWithLeftSon(heap, root_, FindMax(heap, root_))
         IN  {[fault |-> FALSE,
               visited |-> ReverseLoop(f.h, f.ret, Cardinality(DOMAIN heap) + 1)]}

\* ---- history ------------------------------------------------------------------
\* occ: the occurrences of each value the calls made so far amount to (a set
\* holds at most one, an Erase takes one away).
OccAfterInsert(value) ==
    [occ EXCEPT ![value] = IF IsMultiSet THEN @ + 1 ELSE 1]
OccAfterErase(value) ==
    [occ EXCEPT ![value] = IF @ > 0 THEN @ - 1 ELSE 0]

\* phase: "ins" while only values not yet inserted have been inserted,
\* "insdup" while only Insert has been called but some value more than once,
\* "era" once a run of inserts of distinct values is followed only by erases
\* of values still held, "other" for every other call sequence.
PhaseAfterInsert(value) ==
    IF phase = "ins" /\ occ[value] = 0 THEN "ins"
    ELSE IF phase \in {"ins", "insdup"} THEN "insdup"
    ELSE "other"
PhaseAfterErase(value) ==
    IF phase \in {"ins", "era"} /\ occ[value] > 0 THEN "era" ELSE "other"

\* inserted: in multiset mode, the Insert calls of each value made since the
\* tree last did not hold it.
InsertedAfterInsert(value) ==
    IF IsMultiSet THEN [inserted EXCEPT ![value] = @ + 1] ELSE inserted
InsertedAfterErase(h, root) ==
    [v \in AllValues |-> IF FindRecursive(h, v, root) # NULL THEN inserted[v] ELSE 0]

\* ---- the program ----------------------------------------------------------------
Init ==
    /\ root_ = NULL
    /\ heap = << >>
    /\ size_ = 0
    /\ IsMultiSet \in BOOLEAN
    /\ WithSize \in BOOLEAN
    /\ status = "ok"
    /\ occ = [v \in AllValues |-> 0]
    /\ phase = "ins"
    /\ inserted = [v \in AllValues |-> 0]

Insert(value) ==
    /\ status = "ok"
    /\ size_ < (IF IsMultiSet THEN MaxMultiSize ELSE MaxSize)
    /\ occ[value] < MaxCnt
    /\ LET r == InsertRecursive(heap, size_, value, root_)
       IN  /\ root_' = r.ret
           /\ heap' = [r.h EXCEPT ![r.ret].parent_ = NULL]
           /\ size_' = r.sz
    /\ occ' = OccAfterInsert(value)
    /\ phase' = PhaseAfterInsert(value)
    /\ inserted' = InsertedAfterInsert(value)
    /\ UNCHANGED <<IsMultiSet, WithSize, status>>

\* Erase assigns root_ and then writes root_->parent_.  When EraseRecursive
\* returned nullptr that write goes through a null pointer: the program
\* faults, or the write lands nowhere the program looks and it runs on.
Erase(value) ==
    /\ status = "ok"
    /\ LET r == EraseRecursive(heap, value, root_)
       IN  /\ root_' = r.ret
           /\ IF r.ret # NULL
              THEN /\ heap' = Release([r.h EXCEPT ![r.ret].parent_ = NULL], r.ret)
                   /\ status' = "ok"
              ELSE /\ heap' = Release(r.h, NULL)
                   /\ status' \in {"crashed", "ok"}
    /\ occ' = OccAfterErase(value)
    /\ phase' = PhaseAfterErase(value)
    /\ inserted' = InsertedAfterErase(heap', root_')
    /\ UNCHANGED <<size_, IsMultiSet, WithSize>>

Next ==
    \/ \E value \in Values : Insert(value)
    \/ \E value \in Values : Erase(value)

Spec == Init /\ [][Next]_vars

\* ---- what the tree really holds ---------------------------------------------------
RECURSIVE TrueHeight(_, _)
TrueHeight(h, node) ==
    IF node = NULL THEN 0
    ELSE Max(TrueHeight(h, h[node].left_), TrueHeight(h, h[node].right_)) + 1

RECURSIVE TrueSize(_, _)
TrueSize(h, node) ==
    IF node = NULL THEN 0
    ELSE TrueSize(h, h[node].left_) + TrueSize(h, h[node].right_) + 1

SubtreeValues(h, node) == {h[n].value_ : n \in Owned(h, node)}
Stored == SubtreeValues(heap, root_)
TreeNodes == Owned(heap, root_)
Abs(x) == IF x < 0 THEN -x ELSE x
Smallest(S) == CHOOSE x \in S : \A y \in S : x <= y
Largest(S) == CHOOSE x \in S : \A y \in S : x >= y
\* some call has taken a node out of the tree
SomeNodeErased == size_ > Cardinality(TreeNodes)
RootHasTwoSons ==
    root_ # NULL /\ heap[root_].left_ # NULL /\ heap[root_].right_ # NULL

\* ---- claims -------------------------------------------------------------------------

\* C1: in set mode, after each Insert or Erase call every node's left and
\* right subtrees have true heights that differ by at most 1.
C1_AvlBalanceAfterEachCall ==
    (~IsMultiSet) =>
        \A n \in TreeNodes :
            Abs(TrueHeight(heap, heap[n].left_) - TrueHeight(heap, heap[n].right_)) <= 1

\* C2: after each Insert or Erase call, every value in a node's left subtree
\* is strictly smaller than the node's value and every value in its right
\* subtree is strictly greater, so that no value is stored in two nodes.
C2_BstOrder ==
    /\ \A n \in TreeNodes :
          /\ \A v \in SubtreeValues(heap, heap[n].left_) : v < heap[n].value_
          /\ \A v \in SubtreeValues(heap, heap[n].right_) : v > heap[n].value_
    /\ \A n, m \in TreeNodes : heap[n].value_ = heap[m].value_ => n = m

C2_Witness ==
    /\ SomeNodeErased
    /\ RootHasTwoSons
    /\ Cardinality(TreeNodes) >= 3
    /\ TrueHeight(heap, root_) >= 3

\* C3: after each Insert or Erase call every node's stored height is 1 + the
\* larger of its subtrees' true heights, and in TAvlTreeWithSize every node's
\* stored size is the true number of nodes of its subtree.
C3_StoredHeightAndSizeExact ==
    \A n \in TreeNodes :
        /\ heap[n].height_ = TrueHeight(heap, n)
        /\ WithSize => heap[n].size_ = TrueSize(heap, n)

\* C4: in set mode Exsist(x) holds exactly when the last call naming x was an
\* Insert, and Find(x) is then a node holding x and is the end iterator
\* (NULL) otherwise.
C4_ExistsIffPresent ==
    (~IsMultiSet) =>
        \A x \in Values :
            /\ Exsist(x) <=> occ[x] > 0
            /\ occ[x] > 0 => (Find(x) \in TreeNodes /\ heap[Find(x)].value_ = x)
            /\ occ[x] = 0 => Find(x) = NULL

C4_Witness ==
    /\ ~IsMultiSet
    /\ SomeNodeErased
    /\ Cardinality(TreeNodes) >= 3
    /\ \E x, y \in Values : Exsist(x) /\ Find(x) # root_ /\ ~Exsist(y)

\* C5: after n distinct values were inserted into the empty tree and every one
\* of them was erased, the program is still running, Empty() is true and
\* Size() is 0.
C5_RoundTripEmpties ==
    (phase \in {"ins", "era"} /\ \A v \in Values : occ[v] = 0) =>
        (status = "ok" /\ Empty /\ Size = 0)

\* C6: Size() is the number of distinct values stored in the tree, and Empty()
\* is true exactly when no value is stored.
C6_SizeCountsStoredValues ==
    /\ Size = Cardinality(Stored)
    /\ Empty <=> Stored = {}

\* C7: in multiset mode Exsist(x) holds exactly when x was inserted more often
\* than it was erased (an Erase takes one occurrence away, and the node goes
\* only with the last occurrence).
C7_MultisetExistsIffOccurrencesLeft ==
    IsMultiSet => \A x \in Values : Exsist(x) <=> occ[x] > 0

\* C8: Erase(x) of a value x the tree does not store returns normally and
\* leaves root, nodes (values, shape, parent links, counts, stored heights and
\* sizes) and Size() as they were, on the empty tree too.
C8_EraseAbsentIsNoOp ==
    [][\A x \in Values :
          (Erase(x) /\ ~Exsist(x)) =>
              (status' = "ok" /\ root_' = root_ /\ heap' = heap /\ size_' = size_)]_vars

\* C9: for every query value x, Next(x) is a node holding the smallest stored
\* value strictly greater than x, and is the end iterator (NULL) exactly when
\* no stored value exceeds x.
C9_NextIsLeastGreater ==
    \A x \in Queries :
        LET above == {v \in Stored : v > x}
        IN  IF above = {}
            THEN TreeNext(x) = NULL
            ELSE /\ TreeNext(x) \in TreeNodes
                 /\ heap[TreeNext(x)].value_ = Smallest(above)

C9_Witness ==
    /\ SomeNodeErased
    /\ Cardinality(TreeNodes) >= 3
    /\ \E x \in Stored : TreeNext(x) \notin {NULL, root_}
    /\ \E x \in Queries \ Stored : TreeNext(x) # NULL
    /\ \E x \in Stored : TreeNext(x) = NULL

\* C10: for every query value x, Prev(x) is a node holding the largest stored
\* value strictly less than x, and is the end iterator (NULL) exactly when no
\* stored value is below x.
C10_PrevIsGreatestLess ==
    \A x \in Queries :
        LET below == {v \in Stored : v < x}
        IN  IF below = {}
            THEN TreePrev(x) = NULL
            ELSE /\ TreePrev(x) \in TreeNodes
                 /\ heap[TreePrev(x)].value_ = Largest(below)

C10_Witness ==
    /\ SomeNodeErased
    /\ Cardinality(TreeNodes) >= 3
    /\ \E x \in Stored : TreePrev(x) \notin {NULL, root_}
    /\ \E x \in Queries \ Stored : TreePrev(x) # NULL
    /\ \E x \in Stored : TreePrev(x) = NULL

RECURSIVE Ascending(_)
Ascending(S) ==
    IF S = {} THEN << >> ELSE <<Smallest(S)>> \o Ascending(S \ {Smallest(S)})

RECURSIVE Descending(_)
Descending(S) ==
    IF S = {} THEN << >> ELSE <<Largest(S)>> \o Descending(S \ {Largest(S)})

\* C11: starting at Begin() and applying ++ until the iterator equals End()
\* visits the stored values in strictly increasing order, each once, and End()
\* is reached after as many steps as there are nodes; on the empty tree
\* Begin() equals End().
C11_ForwardIterationSorted ==
    /\ ForwardLoop(heap, Begin, Cardinality(TreeNodes) + 1) = Ascending(Stored)
    /\ Len(Ascending(Stored)) = Cardinality(TreeNodes)
    /\ root_ = NULL => Begin = End

C11_Witness ==
    /\ SomeNodeErased
    /\ Cardinality(TreeNodes) >= 4
    /\ Begin # root_
    /\ \E n \in TreeNodes : heap[n].right_ # NULL
    /\ \E n \in TreeNodes :
          /\ heap[n].right_ = NULL
          /\ IsRightSon(heap, n)
          /\ OperatorIncrement(heap, n) # NULL

\* C12: on every reachable tree, the empty one included, iterating from
\* RBegin() to REnd() ends without a fault and visits the stored values in
\* strictly decreasing order, each once (none on the empty tree).
C12_ReverseIterationSorted ==
    status = "ok" =>
        \A o \in ReverseIteration : ~o.fault /\ o.visited = Descending(Stored)

\* C13: after each Insert or Erase call every left or right child's parent
\* link is the node that owns it, and the root's parent link is empty.
C13_ParentLinksConsistent ==
    /\ \A n \in TreeNodes :
          /\ heap[n].left_ # NULL => heap[heap[n].left_].parent_ = n
          /\ heap[n].right_ # NULL => heap[heap[n].right_].parent_ = n
    /\ root_ # NULL => heap[root_].parent_ = NULL

C13_Witness ==
    /\ SomeNodeErased
    /\ RootHasTwoSons
    /\ Cardinality(TreeNodes) >= 4
    /\ \E n \in TreeNodes \ {root_} : heap[n].left_ # NULL \/ heap[n].right_ # NULL

RECURSIVE InOrder(_, _)
InOrder(h, node) ==
    IF node = NULL THEN << >>
    ELSE InOrder(h, h[node].left_) \o <<h[node].value_>> \o InOrder(h, h[node].right_)

\* every rotation some Insert(value) would apply in the current state
RotationsOfInserts ==
    UNION {RotationsApplied(c.h, c.node) :
              c \in UNION {BalanceCalls(heap, value, root_) : value \in Values}}

\* C14: every rotation applied while rebalancing (RotateRight, RotateLeft and
\* the RightRotation / LeftRotation built from them) leaves the in-order
\* sequence of values of the rotated subtree as it was.
C14_RotationKeepsInOrder ==
    \A c \in RotationsOfInserts :
        LET r == ApplyRotation(c)
        IN  InOrder(r.h, r.ret) = InOrder(c.h, c.node)

\* a double rotation is applied by one Insert, and a RotateRight that moves a
\* non-empty middle subtree T2 by another
C14_Witness ==
    /\ \E c, d \in RotationsOfInserts :
          /\ c.f = "RightRotation" /\ d.f = "RotateLeft"
          /\ d.node = c.h[c.node].left_
    /\ \E e \in RotationsOfInserts :
          e.f = "RotateRight" /\ e.h[e.h[e.node].left_].right_ # NULL

\* the true height of the subtree under node when every node in it is
\* AVL-balanced by true heights and stores its true height, and -1 otherwise
RECURSIVE ExactAvlHeight(_, _)
ExactAvlHeight(h, node) ==
    IF node = NULL THEN 0
    ELSE LET l == ExactAvlHeight(h, h[node].left_)
             r == ExactAvlHeight(h, h[node].right_)
         IN  IF l < 0 \/ r < 0 \/ Abs(l - r) > 1 \/ h[node].height_ # Max(l, r) + 1
             THEN -1
             ELSE Max(l, r) + 1

\* every node under node is AVL-balanced by true heights and stores its true height
ExactAvl(h, node) == ExactAvlHeight(h, node) >= 0

\* true height of the left subtree minus that of the right subtree
Lean(h, node) == TrueHeight(h, h[node].left_) - TrueHeight(h, h[node].right_)

\* the arguments BalanceNode is tried on: those of every Insert possible in
\* the current state, and every node of the current tree
BalanceInputs ==
    UNION {BalanceCalls(heap, value, root_) : value \in Values}
    \cup {[h |-> heap, node |-> n] : n \in TreeNodes}

BalancePre(c) ==
    /\ Abs(Lean(c.h, c.node)) <= 2
    /\ ExactAvl(c.h, c.h[c.node].left_)
    /\ ExactAvl(c.h, c.h[c.node].right_)

SameLinks(h1, h2, nodes) ==
    \A n \in nodes : h1[n].left_ = h2[n].left_ /\ h1[n].right_ = h2[n].right_

BalancePost(c) ==
    LET h == c.h
        node == c.node
        l == h[node].left_
        r == h[node].right_
        b == BalanceNode(h, node)
    IN  /\ ExactAvl(b.h, b.ret)
        /\ Abs(Lean(h, node)) <= 1 =>
              b.ret = node /\ SameLinks(b.h, h, Owned(h, node))
        \* left-heavy, left child even or left-leaning: single right rotation
        /\ (Lean(h, node) = 2 /\ Lean(h, l) >= 0) =>
              /\ b.ret = l
              /\ b.h[l].right_ = node /\ b.h[l].left_ = h[l].left_
              /\ b.h[node].left_ = h[l].right_ /\ b.h[node].right_ = r
        \* left-heavy, left child right-leaning: left-right double rotation
        /\ (Lean(h, node) = 2 /\ Lean(h, l) < 0) =>
              LET g == h[l].right_
              IN  /\ b.ret = g
                  /\ b.h[g].left_ = l /\ b.h[g].right_ = node
                  /\ b.h[l].right_ = h[g].left_ /\ b.h[l].left_ = h[l].left_
                  /\ b.h[node].left_ = h[g].right_ /\ b.h[node].right_ = r
        \* right-heavy, right child even or right-leaning: single left rotation
        /\ (Lean(h, node) = -2 /\ Lean(h, r) <= 0) =>
              /\ b.ret = r
              /\ b.h[r].left_ = node /\ b.h[r].right_ = h[r].right_
              /\ b.h[node].right_ = h[r].left_ /\ b.h[node].left_ = l
        \* right-heavy, right child left-leaning: right-left double rotation
        /\ (Lean(h, node) = -2 /\ Lean(h, r) > 0) =>
              LET g == h[r].left_
              IN  /\ b.ret = g
                  /\ b.h[g].right_ = r /\ b.h[g].left_ = node
                  /\ b.h[r].left_ = h[g].right_ /\ b.h[r].right_ = h[r].right_
                  /\ b.h[node].right_ = h[g].left_ /\ b.h[node].left_ = l

\* C15: BalanceNode on a node whose two subtrees are AVL-balanced with exact
\* stored heights and differ in height by at most 2 returns a subtree root
\* under which every node is AVL-balanced with an exact stored height; it
\* rotates once when the heavy child leans the same way or is even, twice when
\* the heavy child leans the other way, and not at all when the difference is
\* at most 1.
C15_BalanceNodeRestoresAvl ==
    \A c \in BalanceInputs : BalancePre(c) => BalancePost(c)

C15_Witness ==
    /\ \E c \in BalanceInputs :
          BalancePre(c) /\ Lean(c.h, c.node) = 2 /\ Lean(c.h, c.h[c.node].left_) < 0
    /\ \E c \in BalanceInputs :
          BalancePre(c) /\ Lean(c.h, c.node) = -2 /\ Lean(c.h, c.h[c.node].right_) < 0
    /\ \E c \in BalanceInputs :
          BalancePre(c) /\ Abs(Lean(c.h, c.node)) = 1
          /\ c.h[c.node].height_ # TrueHeight(c.h, c.node)
    /\ \E c \in BalanceInputs :
          /\ BalancePre(c) /\ Abs(Lean(c.h, c.node)) = 2
          /\ \E k \in {c.h[c.node].left_, c.h[c.node].right_} :
                k # NULL /\ TrueHeight(c.h, k) >= 2 /\ Lean(c.h, k) = 0

HasTwoSons(h, node) == h[node].left_ # NULL /\ h[node].right_ # NULL

\* C16: Erase(x) of a stored x whose node has two children keeps that node in
\* place with the value and count of x's in-order successor, removes the node
\* that held the successor and changes no other node's value; when x's node
\* has at most one child that node is removed and every other node keeps its
\* value.
C16_EraseChangesOnlyTwoSonNode ==
    [][\A x \in Values :
          (Erase(x) /\ Exsist(x)) =>
              LET node == Find(x)
                  change_node == FindMin(heap, heap[node].right_)
              IN  IF HasTwoSons(heap, node)
                  THEN /\ DOMAIN heap' = DOMAIN heap \ {change_node}
                       /\ heap'[node].value_ = heap[change_node].value_
                       /\ heap'[node].cnt_ = heap[change_node].cnt_
                       /\ heap'[node].parent_ = heap[node].parent_
                       /\ heap'[node].left_ = heap[node].left_
                       /\ \A m \in DOMAIN heap' \ {node} :
                             heap'[m].value_ = heap[m].value_
                  ELSE /\ DOMAIN heap' = DOMAIN heap \ {node}
                       /\ \A m \in DOMAIN heap' :
                             heap'[m].value_ = heap[m].value_]_vars

\* an Erase has removed a node, and both kinds of Erase are possible: of a
\* node with two sons whose successor carries another count, and of a node
\* with fewer sons
C16_Witness ==
    /\ SomeNodeErased
    /\ \E x \in Stored :
          /\ HasTwoSons(heap, Find(x))
          /\ heap[FindMin(heap, heap[Find(x)].right_)].cnt_ # heap[Find(x)].cnt_
    /\ \E x \in Stored : ~HasTwoSons(heap, Find(x))

\* C17: in multiset mode the count stored with each value is the number of
\* Insert calls of that value since the tree last did not hold it (at least
\* 1; an Erase of another value moves no count to a different value); in set
\* mode every stored count is 1.
C17_StoredCounts ==
    \A n \in TreeNodes :
        IF IsMultiSet
        THEN heap[n].cnt_ = inserted[heap[n].value_] /\ heap[n].cnt_ >= 1
        ELSE heap[n].cnt_ = 1

\* a node was taken out of a multiset that now holds counts 1 and 2
C17_Witness ==
    /\ IsMultiSet
    /\ SomeNodeErased
    /\ \E n, m \in TreeNodes : heap[n].cnt_ = 1 /\ heap[m].cnt_ >= 2

\* C18: after every sequence of Insert calls only (duplicates allowed) on the
\* empty TAvlTree or TAvlTreeWithSize, every node is AVL-balanced and stores
\* its true height (and its true subtree size in TAvlTreeWithSize).
C18_InsertOnlyKeepsAvl ==
    phase \in {"ins", "insdup"} =>
        \A n \in TreeNodes :
            /\ Abs(TrueHeight(heap, heap[n].left_) - TrueHeight(heap, heap[n].right_)) <= 1
            /\ heap[n].height_ = TrueHeight(heap, n)
            /\ WithSize => heap[n].size_ = TrueSize(heap, n)

\* only Insert was called, some value twice, and a rotation has moved the
\* first node created away from the root
C18_Witness ==
    /\ phase = "insdup"
    /\ WithSize
    /\ Cardinality(TreeNodes) >= 3
    /\ root_ # 1

\* C19: for every stored value x, ++ applied to Find(x) gives the iterator
\* Next(x) returns and -- applied to Find(x) gives the iterator Prev(x)
\* returns (the end iterator at the largest, respectively smallest, value).
C19_IteratorStepAgreesWithSearch ==
    \A x \in Stored :
        /\ OperatorIncrement(heap, Find(x)) = TreeNext(x)
        /\ OperatorDecrement(heap, Find(x)) = TreePrev(x)

\* after an Erase, a tree where ++ has to climb out of a right son to reach
\* the successor, -- has to descend into a left subtree, and both reach the
\* end iterator
C19_Witness ==
    /\ SomeNodeErased
    /\ Cardinality(TreeNodes) >= 4
    /\ \E x \in Stored :
          /\ heap[Find(x)].right_ = NULL /\ IsRightSon(heap, Find(x))
          /\ TreeNext(x) # NULL
    /\ \E x \in Stored :
          /\ heap[Find(x)].left_ # NULL
          /\ TreePrev(x) # heap[Find(x)].left_
    /\ \E x \in Stored : OperatorIncrement(heap, Find(x)) = End
    /\ \E x \in Stored : OperatorDecrement(heap, Find(x)) = End

====
